---- MODULE Spec2Model ----
(***************************************************************************)
(* ssb-causal-sort: causal_sort and find_all_links of src/src/lib.rs.      *)
(*                                                                         *)
(* Two specifications share the variables:                                 *)
(*   Spec       the fold of causal_sort over the input entries, followed   *)
(*              by petgraph's Topo walk and the filter_map onto caller     *)
(*              keys;                                                      *)
(*   SpecLinks  find_all_links applied to bounded JSON values.             *)
(*                                                                         *)
(* Texts are sequences of tokens: the legacy text of a message hash is     *)
(* <<"%", digest, ".sha256">>.  A JSON value is a pair <<tag, payload>>.   *)
(***************************************************************************)
EXTENDS Naturals, Sequences, FiniteSets, TLC

VARIABLES msgs, dag, hash_to_node, node_to_key_id, pc, tovisit, ordered, sorted,
          obj, keys0, keys, lpc

sortVars == <<msgs, dag, hash_to_node, node_to_key_id, pc, tovisit, ordered, sorted>>
linkVars == <<obj, keys0, keys, lpc>>
vars == <<msgs, dag, hash_to_node, node_to_key_id, pc, tovisit, ordered, sorted,
          obj, keys0, keys, lpc>>

(***************************************************************************)
(* Bounds                                                                  *)
(***************************************************************************)
\* entries in one input slice
MaxMsgs == 3
\* references in one message body
MaxRefs == 3
\* references in one input slice, all bodies together
MaxEdges == 3
\* nodes (scalars, arrays, objects) of a JSON value given to find_all_links
MaxNodes == 4

\* the digests, in the order in which an input brings them in
DigestOrder == <<"d1", "d2", "d3">>

Digests == {DigestOrder[i] : i \in 1..Len(DigestOrder)}

(***************************************************************************)
(* Multihash and its legacy text                                           *)
(***************************************************************************)
Multihash(target, digest) == <<target, digest>>

Ids == {Multihash("Message", d) : d \in Digests}

\* the text the tests hand to from_legacy: "%<base64>.sha256"
Legacy(mh) == <<(IF mh[1] = "Message" THEN "%" ELSE "&"), mh[2], ".sha256">>

\* Multihash::from_legacy: sigil, digest, suffix; the rest of the text is
\* returned as the tail, which find_all_links drops
from_legacy(s) ==
    IF /\ Len(s) >= 3
       /\ s[1] \in {"%", "&"}
       /\ s[2] \in Digests
       /\ s[3] = ".sha256"
    THEN [ok |-> TRUE,
          mh |-> Multihash(IF s[1] = "%" THEN "Message" ELSE "Blob", s[2]),
          tail |-> SubSeq(s, 4, Len(s))]
    ELSE [ok |-> FALSE, mh |-> <<>>, tail |-> s]

(***************************************************************************)
(* serde_json::Value                                                       *)
(***************************************************************************)
Null == <<"Null", "null">>
String(s) == <<"String", s>>
Array(items) == <<"Array", items>>
Object(kv) == <<"Object", kv>>

\* Value::as_str
is_str(v) == v[1] = "String"

\* the match on val inside the Value::Object arm
ObjectArmNoArray(val) == val[1] \in {"Object", "String"}

ObjectArm(val) == val[1] \in {"Object", "Array", "String"}

RECURSIVE find_all_links(_, _)
RECURSIVE links_array(_, _)
RECURSIVE links_object(_, _)

find_all_links(v, ks) ==
    LET ks1 == IF is_str(v) /\ from_legacy(v[2]).ok
               THEN Append(ks, from_legacy(v[2]).mh)
               ELSE ks
    IN  IF v[1] = "Array" THEN links_array(v[2], ks1)
        ELSE IF v[1] = "Object" THEN links_object(v[2], ks1)
        ELSE ks1

links_array(arr, ks) ==
    IF arr = <<>> THEN ks
    ELSE links_array(Tail(arr), find_all_links(Head(arr), ks))

links_object(kv, ks) ==
    IF kv = <<>> THEN ks
    ELSE links_object(Tail(kv),
                      IF ObjectArm(Head(kv)[2])
                      THEN find_all_links(Head(kv)[2], ks)
                      ELSE ks)

(***************************************************************************)
(* Raw bodies and serde_json::from_str(..).unwrap_or(Value::Null)          *)
(***************************************************************************)
\* a body is the serialisation of a value, or text that is no JSON document
JsonText(v) == <<"json", v>>
RawText(s) == <<"raw", s>>

from_str_lenient(msg) == IF msg[1] = "json" THEN msg[2] ELSE String(msg[2])

from_str(msg) == IF msg[1] = "json" THEN msg[2] ELSE Null

\* the references line 28-33 computes for one entry
RefsOf(msg) == find_all_links(from_str(msg), <<>>)

(***************************************************************************)
(* daggy::Dag over petgraph::Graph: n nodes 0..n-1, edges in the order     *)
(* they were added                                                         *)
(***************************************************************************)
NewDag == [n |-> 0, e |-> <<>>]

add_node(g) == [g EXCEPT !.n = g.n + 1]

EdgeSet(g) == {g.e[i] : i \in 1..Len(g.e)}

RECURSIVE ReachFrom(_, _)
ReachFrom(g, S) ==
    LET T == S \cup {e[2] : e \in {x \in EdgeSet(g) : x[1] \in S}}
    IN  IF T = S THEN S ELSE ReachFrom(g, T)

\* has_path_connecting(graph, from, to)
HasPath(g, from, to) == to \in ReachFrom(g, {from})

WouldCycleNoSelf(g, a, b) == a # b /\ HasPath(g, b, a)

\* Dag::add_edge returns Err(WouldCycle) iff the edge a -> b closes a cycle
WouldCycle(g, a, b) == HasPath(g, b, a)

add_edge(g, a, b) == [g EXCEPT !.e = Append(g.e, <<a, b>>)]

(***************************************************************************)
(* One pass of the fold closure, lines 41-57                               *)
(***************************************************************************)
EmptyMap == [x \in {} |-> 0]

NewState == [dag |-> NewDag, hash_to_node |-> EmptyMap,
             node_to_key_id |-> EmptyMap, panicked |-> FALSE]

KeyIdInsert(m, node, key_id) == node :> key_id @@ m

\* node_to_key_id.entry(key_node).or_insert(*key_id)
KeyIdOrInsert(m, node, key_id) ==
    IF node \in DOMAIN m THEN m ELSE m @@ (node :> key_id)

NodeAlwaysNew(h, g, k) == g.n

\* hash_to_node.entry(k).or_insert_with(|| dag.add_node(1)): the node of k
NodeOrInsert(h, g, k) == IF k \in DOMAIN h THEN h[k] ELSE g.n

\* the dag and the map after that entry call
DagAfterEntry(h, g, k) == IF NodeOrInsert(h, g, k) = g.n THEN add_node(g) ELSE g
MapAfterEntry(h, g, k) == (k :> NodeOrInsert(h, g, k)) @@ h

RECURSIVE AddRefs(_, _, _)
AddRefs(st, key_node, refs) ==
    IF refs = <<>> THEN st
    ELSE LET reference == Head(refs)
             ref_node == NodeOrInsert(st.hash_to_node, st.dag, reference)
             dag1 == DagAfterEntry(st.hash_to_node, st.dag, reference)
             h1 == MapAfterEntry(st.hash_to_node, st.dag, reference)
         IN  IF WouldCycle(dag1, key_node, ref_node)
             THEN [st EXCEPT !.dag = dag1, !.hash_to_node = h1, !.panicked = TRUE]
             ELSE AddRefs([st EXCEPT !.dag = add_edge(dag1, key_node, ref_node),
                                     !.hash_to_node = h1],
                          key_node, Tail(refs))

FoldEntry(st, entry) ==
    LET key == entry[1]
        key_id == entry[2]
        refs == RefsOf(entry[3])
        key_node == NodeOrInsert(st.hash_to_node, st.dag, key)
        st1 == [st EXCEPT
                  !.dag = DagAfterEntry(st.hash_to_node, st.dag, key),
                  !.hash_to_node = MapAfterEntry(st.hash_to_node, st.dag, key),
                  !.node_to_key_id = KeyIdOrInsert(st.node_to_key_id, key_node, key_id)]
    IN  AddRefs(st1, key_node, refs)

(***************************************************************************)
(* petgraph::visit::Topo                                                   *)
(***************************************************************************)
Incoming(g, b) == {e[1] : e \in {x \in EdgeSet(g) : x[2] = b}}

\* Graph::neighbors(a): the targets of a's outgoing edges, last added first
RECURSIVE NeighborsUpTo(_, _, _)
NeighborsUpTo(g, a, i) ==
    IF i = 0 THEN <<>>
    ELSE IF g.e[i][1] = a
         THEN <<g.e[i][2]>> \o NeighborsUpTo(g, a, i - 1)
         ELSE NeighborsUpTo(g, a, i - 1)

Neighbors(g, a) == NeighborsUpTo(g, a, Len(g.e))

\* Topo::new: the nodes without incoming edges, in index order
Initials(g) ==
    SelectSeq([i \in 1..g.n |-> i - 1], LAMBDA a : Incoming(g, a) = {})

ReadyAlways(g, ord, m) == TRUE

\* Reversed(g).neighbors(neigh).all(|b| ordered.is_visited(&b))
Ready(g, ord, m) == Incoming(g, m) \subseteq ord

IsVisitedNever(ord, nix) == FALSE

\* ordered.is_visited(&nix)
IsVisited(ord, nix) == nix \in ord

PopFront(tv) == [nix |-> tv[1], rest |-> Tail(tv)]

\* tovisit.pop()
Pop(tv) == [nix |-> tv[Len(tv)], rest |-> SubSeq(tv, 1, Len(tv) - 1)]

\* Option<NodeIndex>: <<>> is None, <<nix>> is Some(nix)
NoNode == <<>>

\* Topo::next: the node it returns and the walker after it
RECURSIVE TopoNext(_, _, _)
TopoNext(g, tv, ord) ==
    IF tv = <<>> THEN [node |-> NoNode, tovisit |-> tv, ordered |-> ord]
    ELSE LET nix == Pop(tv).nix
             rest == Pop(tv).rest
         IN  IF IsVisited(ord, nix) THEN TopoNext(g, rest, ord)
             ELSE LET ord1 == ord \cup {nix}
                  IN  [node |-> <<nix>>,
                       tovisit |-> rest \o SelectSeq(Neighbors(g, nix),
                                                     LAMBDA m : Ready(g, ord1, m)),
                       ordered |-> ord1]

EmitAll(m, node, out) == Append(out, IF node \in DOMAIN m THEN m[node] ELSE 0)

\* .filter_map(|node| node_to_key_id.get(&node)).map(|i| *i) feeding collect
Emit(m, node, out) == IF node \in DOMAIN m THEN Append(out, m[node]) ELSE out

(***************************************************************************)
(* causal_sort as a function of the whole slice                            *)
(***************************************************************************)
RECURSIVE FoldAll(_, _)
FoldAll(st, ms) ==
    IF ms = <<>> \/ st.panicked THEN st
    ELSE FoldAll(FoldEntry(st, Head(ms)), Tail(ms))

RECURSIVE Collect(_, _, _, _, _)
Collect(g, m, tv, ord, out) ==
    LET r == TopoNext(g, tv, ord)
    IN  IF r.node = NoNode THEN out
        ELSE Collect(g, m, r.tovisit, r.ordered, Emit(m, r.node[1], out))

causal_sort(ms) ==
    LET st == FoldAll(NewState, ms)
    IN  IF st.panicked THEN [panicked |-> TRUE, sorted |-> <<>>]
        ELSE [panicked |-> FALSE,
              sorted |-> Collect(st.dag, st.node_to_key_id,
                                 Initials(st.dag), {}, <<>>)]

(***************************************************************************)
(* Inputs                                                                  *)
(***************************************************************************)
RefLists == UNION {[1..n -> Ids] : n \in 0..MaxRefs}

\* a body holding the references rs: {} , {"root": r} or an array of them
BodyOf(rs) ==
    IF rs = <<>> THEN JsonText(Object(<<>>))
    ELSE IF Len(rs) = 1 THEN JsonText(Object(<< <<<<"root">>, String(Legacy(rs[1]))>> >>))
    ELSE JsonText(Array([i \in 1..Len(rs) |-> String(Legacy(rs[i]))]))

\* text that is no JSON document: an unquoted hash
Garbage == RawText(Legacy(Multihash("Message", "d1")))

Bodies == {BodyOf(rs) : rs \in RefLists} \cup {Garbage}

\* Identifiers are only compared and hashed, so inputs are taken up to a
\* renaming of the digests: an identifier not seen before, as a key or as a
\* reference, is the first digest of DigestOrder that is still unused.
RECURSIVE InOrder(_, _)
InOrder(seen, ids) ==
    IF ids = <<>> THEN TRUE
    ELSE IF Head(ids) \in seen THEN InOrder(seen, Tail(ids))
    ELSE /\ Head(ids) = Multihash("Message", DigestOrder[Cardinality(seen) + 1])
         /\ InOrder(seen \cup {Head(ids)}, Tail(ids))

RECURSIVE IdsOf(_)
IdsOf(ms) ==
    IF ms = <<>> THEN {}
    ELSE {Head(ms)[1]} \cup {RefsOf(Head(ms)[3])[i] : i \in 1..Len(RefsOf(Head(ms)[3]))}
         \cup IdsOf(Tail(ms))

RECURSIVE TotalRefs(_)
TotalRefs(ms) ==
    IF ms = <<>> THEN 0 ELSE Len(RefsOf(Head(ms)[3])) + TotalRefs(Tail(ms))

(***************************************************************************)
(* Spec: causal_sort                                                       *)
(***************************************************************************)
LinksIdle == obj = Null /\ keys0 = <<>> /\ keys = <<>> /\ lpc = "idle"

Init ==
    /\ msgs = <<>>
    /\ dag = NewDag
    /\ hash_to_node = EmptyMap
    /\ node_to_key_id = EmptyMap
    /\ pc = "fold"
    /\ tovisit = <<>>
    /\ ordered = {}
    /\ sorted = <<>>
    /\ LinksIdle

\* the fold closure runs on the next entry of the slice
FoldStep ==
    /\ pc = "fold"
    /\ Len(msgs) < MaxMsgs
    /\ \E room \in {MaxEdges - TotalRefs(msgs)}, seen \in {IdsOf(msgs)} :
       \E key \in Ids, msg \in Bodies :
          LET entry == <<key, Len(msgs) + 1, msg>>
              st == FoldEntry([dag |-> dag, hash_to_node |-> hash_to_node,
                               node_to_key_id |-> node_to_key_id,
                               panicked |-> FALSE], entry)
          IN  /\ Len(RefsOf(msg)) <= room
              /\ InOrder(seen, <<key>> \o RefsOf(msg))
              /\ msgs' = Append(msgs, entry)
              /\ dag' = st.dag
              /\ hash_to_node' = st.hash_to_node
              /\ node_to_key_id' = st.node_to_key_id
              /\ pc' = IF st.panicked THEN "panic" ELSE "fold"
    /\ UNCHANGED <<tovisit, ordered, sorted>>
    /\ UNCHANGED linkVars

\* the slice is exhausted: Topo::new(graph)
TopoNew ==
    /\ pc = "fold"
    /\ tovisit' = Initials(dag)
    /\ ordered' = {}
    /\ pc' = "topo"
    /\ UNCHANGED <<msgs, dag, hash_to_node, node_to_key_id, sorted>>
    /\ UNCHANGED linkVars

\* collect pulls one node through filter_map and map
IterNext ==
    /\ pc = "topo"
    /\ LET r == TopoNext(dag, tovisit, ordered)
       IN  /\ r.node # NoNode
           /\ tovisit' = r.tovisit
           /\ ordered' = r.ordered
           /\ sorted' = Emit(node_to_key_id, r.node[1], sorted)
    /\ UNCHANGED <<msgs, dag, hash_to_node, node_to_key_id, pc>>
    /\ UNCHANGED linkVars

\* the walk returns None: collect returns the vector
IterEnd ==
    /\ pc = "topo"
    /\ LET r == TopoNext(dag, tovisit, ordered)
       IN  /\ r.node = NoNode
           /\ tovisit' = r.tovisit
           /\ ordered' = r.ordered
    /\ pc' = "done"
    /\ UNCHANGED <<msgs, dag, hash_to_node, node_to_key_id, sorted>>
    /\ UNCHANGED linkVars

Next == FoldStep \/ TopoNew \/ IterNext \/ IterEnd

Spec == Init /\ [][Next]_vars

\* the slice is finite, so the fold reaches its end, and collect keeps
\* pulling from the walk until it returns None
FairSpec == Spec /\ WF_vars(TopoNew) /\ WF_vars(IterNext) /\ WF_vars(IterEnd)

(***************************************************************************)
(* SpecLinks: find_all_links on the JSON values of at most MaxNodes nodes  *)
(***************************************************************************)
\* string contents: two hashes, a hash followed by more text, and three
\* texts from_legacy rejects (feed sigil, unknown suffix, plain text)
Texts == {Legacy(Multihash("Message", "d1")),
          Legacy(Multihash("Blob", "d2")),
          Legacy(Multihash("Message", "d3")) \o <<" and more">>,
          <<"@", "d1", ".ed25519">>,
          <<"%", "d2", ".sha1">>,
          <<"hello">>}

Scalars == {String(t) : t \in Texts}
             \cup {<<"Number", "7">>, <<"Bool", "true">>, Null}

\* the keys of an object, in the order the map iterates them; the first is
\* itself the text of a hash
KeyOrder == << Legacy(Multihash("Message", "d2")), <<"previous">> >>

\* the key sequences of an object with n entries
KeySeqs(n) ==
    {[i \in 1..n |-> KeyOrder[c[i]]] :
        c \in {d \in [1..n -> 1..Len(KeyOrder)] :
                  \A i \in 1..n : \A j \in 1..n : i < j => d[i] < d[j]}}

\* the arrays and the objects whose elements are the sequences in F
Composites(F) ==
    {Array(f) : f \in F}
      \cup {Object([i \in 1..Len(p[1]) |-> <<p[2][i], p[1][i]>>]) :
               p \in {q \in F \X (KeySeqs(0) \cup KeySeqs(1) \cup KeySeqs(2)) :
                         Len(q[1]) = Len(q[2])}}

RECURSIVE ValuesOfSize(_)
RECURSIVE Forests(_)
RECURSIVE ForestsFrom(_, _)

\* the values with exactly n nodes
ValuesOfSize(n) ==
    IF n = 0 THEN {}
    ELSE (IF n = 1 THEN Scalars ELSE {}) \cup Composites(Forests(n - 1))

\* the sequences of values with m nodes in all
Forests(m) == IF m = 0 THEN {<<>>} ELSE ForestsFrom(m, 1)

\* those whose first value has at least k nodes
ForestsFrom(m, k) ==
    IF k > m THEN {}
    ELSE {<<p[1]>> \o p[2] : p \in ValuesOfSize(k) \X Forests(m - k)}
           \cup ForestsFrom(m, k + 1)

RECURSIVE ValuesUpTo(_)
ValuesUpTo(n) == IF n = 0 THEN {} ELSE ValuesOfSize(n) \cup ValuesUpTo(n - 1)

SortIdle ==
    /\ msgs = <<>>
    /\ dag = NewDag
    /\ hash_to_node = EmptyMap
    /\ node_to_key_id = EmptyMap
    /\ pc = "idle"
    /\ tovisit = <<>>
    /\ ordered = {}
    /\ sorted = <<>>

\* the caller's vector is empty (as in causal_sort) or already holds a hash
InitLinks ==
    /\ SortIdle
    /\ obj \in ValuesUpTo(MaxNodes)
    /\ keys0 \in {<<>>, <<Multihash("Blob", "d3")>>}
    /\ keys = keys0
    /\ lpc = "call"

FindAllLinks ==
    /\ lpc = "call"
    /\ keys' = find_all_links(obj, keys)
    /\ lpc' = "ret"
    /\ UNCHANGED <<obj, keys0>>
    /\ UNCHANGED sortVars

NextLinks == FindAllLinks

SpecLinks == InitLinks /\ [][NextLinks]_vars

(***************************************************************************)
(* Vocabulary of the properties                                            *)
(***************************************************************************)
Range(s) == {s[i] : i \in 1..Len(s)}

Occurs(s, k) == Cardinality({i \in 1..Len(s) : s[i] = k})

\* k occurs in s, and every occurrence of k precedes every occurrence of l
Before(s, k, l) ==
    /\ k \in Range(s)
    /\ l \in Range(s)
    /\ \A i \in 1..Len(s) : \A j \in 1..Len(s) :
          (s[i] = k /\ s[j] = l) => i < j

Supplied(ms) == {ms[i][1] : i \in 1..Len(ms)}

FirstIndex(ms, id) ==
    CHOOSE i \in 1..Len(ms) :
        ms[i][1] = id /\ \A j \in 1..Len(ms) : ms[j][1] = id => i <= j

\* the caller key of the first entry that supplies id
FirstKey(ms, id) == ms[FirstIndex(ms, id)][2]

Parses(msg) == msg[1] = "json"

\* the pairs <<B, A>>: some entry with identifier B has a body that refers to A
References(ms) ==
    UNION {{<<ms[i][1], r>> : r \in Range(RefsOf(ms[i][3]))} : i \in 1..Len(ms)}

Referenced(ms) == {p[2] : p \in References(ms)}

Unreferenced(ms) == Supplied(ms) \ Referenced(ms)

RECURSIVE Closure(_)
Closure(R) ==
    LET R3 == R \cup {<<p[1], q[2]>> : <<p, q>> \in {x \in R \X R : x[1][2] = x[2][1]}}
    IN  IF R3 = R THEN R ELSE Closure(R3)

CycleFree(ms) == \A p \in Closure(References(ms)) : p[1] # p[2]

\* the entries of ms that repeat an identifier supplied before them
IsRepeat(ms, j) == \E i \in 1..Len(ms) : i < j /\ ms[i][1] = ms[j][1]

\* the references the parsed bodies of the entries for id hold, all together
RECURSIVE RefCount(_, _)
RefCount(ms, id) ==
    IF ms = <<>> THEN 0
    ELSE (IF Head(ms)[1] = id /\ Parses(Head(ms)[3])
          THEN Len(RefsOf(Head(ms)[3])) ELSE 0) + RefCount(Tail(ms), id)

Returned == pc = "done"

(***************************************************************************)
(* C1: when causal_sort returns, for every entry with identifier B whose   *)
(* body refers to a supplied identifier A, the caller key of B stands in   *)
(* the result strictly before the caller key of A.                         *)
(***************************************************************************)
Thm_C1 ==
    Returned =>
        \A p \in References(msgs) :
            p[2] \in Supplied(msgs) =>
                Before(sorted, FirstKey(msgs, p[1]), FirstKey(msgs, p[2]))

\* the reply chain of the first test: three supplied messages, three edges
\* among them, the referenced root supplied after a message that refers to it
W_C1 ==
    /\ Returned
    /\ Cardinality({p \in References(msgs) : p[2] \in Supplied(msgs)}) = 3
    /\ \E p \in References(msgs) :
          /\ p[2] \in Supplied(msgs)
          /\ FirstIndex(msgs, p[1]) < FirstIndex(msgs, p[2])

(***************************************************************************)
(* C2: a cycle-free input never raises the cycle error, the call comes to  *)
(* an end, and the result has exactly one entry per distinct supplied      *)
(* identifier and nothing else; an identifier that bodies only refer to    *)
(* has no entry.                                                           *)
(***************************************************************************)
Inv_C2 ==
    /\ CycleFree(msgs) => pc # "panic"
    /\ Returned =>
          /\ Len(sorted) = Cardinality(Supplied(msgs))
          /\ \A i \in 1..Len(sorted) : sorted[i] \in 1..Len(msgs)
          /\ \A id \in Supplied(msgs) :
                Cardinality({i \in 1..Len(sorted) : msgs[sorted[i]][1] = id}) = 1

Thm_C2 == []Inv_C2 /\ <>(pc \in {"done", "panic"})

\* a returned call whose bodies refer to an identifier nobody supplied
W_C2 ==
    /\ Returned
    /\ Referenced(msgs) \ Supplied(msgs) # {}
    /\ Cardinality(Supplied(msgs)) >= 2

(***************************************************************************)
(* C3: when the supplied messages refer to each other in a cycle (a body   *)
(* naming its own identifier included) the call ends in the cycle error,   *)
(* in whatever order the entries come, and no result is returned.          *)
(***************************************************************************)
Thm_C3 == ~CycleFree(msgs) => (pc = "panic" /\ sorted = <<>>)

\* a cycle through three messages, none of them naming itself or being
\* named back by the message it names
W_C3 ==
    /\ pc = "panic"
    /\ Cardinality(Supplied(msgs)) = 3
    /\ \A p \in References(msgs) :
          p[1] # p[2] /\ <<p[2], p[1]>> \notin References(msgs)

(***************************************************************************)
(* C4: when causal_sort returns, a supplied message that no supplied       *)
(* message refers to stands before every supplied message that some        *)
(* supplied message refers to.                                             *)
(***************************************************************************)
CE_C4 ==
    Returned =>
        \A u \in Unreferenced(msgs) :
            \A r \in Supplied(msgs) \cap Referenced(msgs) :
                Before(sorted, FirstKey(msgs, u), FirstKey(msgs, r))

(***************************************************************************)
(* C5 as claimed: when an identifier comes in several entries, the call    *)
(* raises no error, and the result holds exactly one entry for the         *)
(* identifier, the caller key of the first of these entries.               *)
(***************************************************************************)
DupKeys(ms, id) == {ms[j][2] : j \in {i \in 1..Len(ms) : ms[i][1] = id}}

Repeated(ms) == {id \in Supplied(ms) : Cardinality(DupKeys(ms, id)) > 1}

FirstWins ==
    Returned =>
        \A id \in Repeated(msgs) :
            /\ Occurs(sorted, FirstKey(msgs, id)) = 1
            /\ \A k \in DupKeys(msgs, id) \ {FirstKey(msgs, id)} : Occurs(sorted, k) = 0

CE_C5 == (Repeated(msgs) # {} => pc # "panic") /\ FirstWins

(***************************************************************************)
(* C5 amended: when an identifier comes in several entries and the         *)
(* references of all entries together, those of the repeated entries       *)
(* included, are cycle-free, the call raises no error, and the result      *)
(* holds exactly one entry for the identifier, the caller key of the first *)
(* of these entries.                                                       *)
(***************************************************************************)
Thm_C5 ==
    /\ (Repeated(msgs) # {} /\ CycleFree(msgs)) => pc # "panic"
    /\ FirstWins

\* a returned call in which an identifier came twice, with different bodies
W_C5 ==
    /\ Returned
    /\ \E i \in 1..Len(msgs) : \E j \in 1..Len(msgs) :
          /\ i < j
          /\ msgs[i][1] = msgs[j][1]
          /\ RefsOf(msgs[i][3]) # RefsOf(msgs[j][3])
    /\ Len(sorted) >= 2

(***************************************************************************)
(* C6 as claimed: an entry whose body does not parse raises no error and   *)
(* adds no outgoing edge, and when the call returns its own caller key     *)
(* stands in the result exactly once, after the key of every supplied      *)
(* message that refers to it.                                              *)
(***************************************************************************)
\* the error is raised while the last entry taken is folded in
NoErrorFromUnparsed == pc = "panic" => Parses(msgs[Len(msgs)][3])

\* the outgoing edges of a node are the references of the parsed bodies
NoEdgeFromUnparsed ==
    pc # "panic" =>
        \A id \in Supplied(msgs) :
            Len(Neighbors(dag, hash_to_node[id])) = RefCount(msgs, id)

CE_C6 ==
    /\ NoErrorFromUnparsed
    /\ NoEdgeFromUnparsed
    /\ Returned =>
          \A j \in 1..Len(msgs) :
              ~Parses(msgs[j][3]) =>
                  /\ Occurs(sorted, msgs[j][2]) = 1
                  /\ \A p \in References(msgs) :
                        p[2] = msgs[j][1] =>
                            Before(sorted, FirstKey(msgs, p[1]), msgs[j][2])

(***************************************************************************)
(* C6 amended: an entry whose body does not parse raises no error and adds *)
(* no outgoing edge, and when the call returns the caller key recorded for *)
(* its identifier (its own, unless an earlier entry supplied the same      *)
(* identifier) stands in the result exactly once, after the key of every   *)
(* supplied message that refers to it.                                     *)
(***************************************************************************)
Thm_C6 ==
    /\ NoErrorFromUnparsed
    /\ NoEdgeFromUnparsed
    /\ Returned =>
          \A j \in 1..Len(msgs) :
              ~Parses(msgs[j][3]) =>
                  /\ Occurs(sorted, FirstKey(msgs, msgs[j][1])) = 1
                  /\ \A p \in References(msgs) :
                        p[2] = msgs[j][1] =>
                            Before(sorted, FirstKey(msgs, p[1]),
                                   FirstKey(msgs, msgs[j][1]))

\* a returned call with an unparsed entry that an earlier entry refers to
W_C6 ==
    /\ Returned
    /\ \E i \in 1..Len(msgs) : \E j \in 1..Len(msgs) :
          /\ i < j
          /\ ~Parses(msgs[j][3])
          /\ msgs[j][1] \in Range(RefsOf(msgs[i][3]))
          /\ ~IsRepeat(msgs, j)

(***************************************************************************)
(* C7: find_all_links appends to its output, in depth-first order and      *)
(* keeping repeats, exactly the hashes of the string values that parse,    *)
(* at any depth among array elements and object values (and a string at    *)
(* the top); keys, other strings and other scalars add nothing.            *)
(***************************************************************************)
RECURSIVE Flatten(_)
Flatten(ss) == IF ss = <<>> THEN <<>> ELSE Head(ss) \o Flatten(Tail(ss))

\* the contents of the string values of v, left to right
RECURSIVE StringValues(_)
StringValues(v) ==
    CASE v[1] = "String" -> <<v[2]>>
      [] v[1] = "Array"  -> Flatten([i \in 1..Len(v[2]) |-> StringValues(v[2][i])])
      [] v[1] = "Object" -> Flatten([i \in 1..Len(v[2]) |-> StringValues(v[2][i][2])])
      [] OTHER -> <<>>

HashesOf(texts) ==
    LET good == SelectSeq(texts, LAMBDA t : from_legacy(t).ok)
    IN  [i \in 1..Len(good) |-> from_legacy(good[i]).mh]

Thm_C7 == lpc = "ret" => keys = keys0 \o HashesOf(StringValues(obj))

\* an object under a key that is itself the text of a hash, holding an array
\* with a hash and a string that is none, given a vector that is not empty
W_C7 ==
    /\ lpc = "ret"
    /\ keys0 # <<>>
    /\ obj[1] = "Object"
    /\ Len(obj[2]) = 1
    /\ from_legacy(obj[2][1][1]).ok
    /\ obj[2][1][2][1] = "Array"
    /\ Len(StringValues(obj)) = 2
    /\ Len(keys) = Len(keys0) + 1

(***************************************************************************)
(* C8: repeating a reference inside a body changes nothing: a call that    *)
(* returns gives a result without a repeated entry, and the same result,   *)
(* without the cycle error, as the input whose reference lists keep only   *)
(* the first occurrence of each identifier.                                *)
(***************************************************************************)
RECURSIVE KeepFirst(_)
KeepFirst(rs) ==
    IF rs = <<>> THEN <<>>
    ELSE LET init == KeepFirst(SubSeq(rs, 1, Len(rs) - 1))
             last == rs[Len(rs)]
         IN  IF last \in Range(init) THEN init ELSE Append(init, last)

HasRepeat(rs) == Cardinality(Range(rs)) < Len(rs)

WithoutRepeats(ms) ==
    [i \in 1..Len(ms) |->
        IF HasRepeat(RefsOf(ms[i][3]))
        THEN <<ms[i][1], ms[i][2], BodyOf(KeepFirst(RefsOf(ms[i][3])))>>
        ELSE ms[i]]

Thm_C8 ==
    Returned =>
        /\ \A k \in Range(sorted) : Occurs(sorted, k) = 1
        /\ causal_sort(WithoutRepeats(msgs)) = [panicked |-> FALSE, sorted |-> sorted]

\* a returned call in which one body names two supplied identifiers, the
\* first of them again after the second
W_C8 ==
    /\ Returned
    /\ \E i \in 1..Len(msgs) :
          /\ Len(RefsOf(msgs[i][3])) = 3
          /\ RefsOf(msgs[i][3])[1] = RefsOf(msgs[i][3])[3]
          /\ RefsOf(msgs[i][3])[1] # RefsOf(msgs[i][3])[2]
          /\ Range(RefsOf(msgs[i][3])) \subseteq Supplied(msgs)
    /\ Len(sorted) = 3

(***************************************************************************)
(* C9: after any prefix of the entries, the identifiers seen so far, as    *)
(* keys or as references, are mapped one to one onto the nodes of the      *)
(* graph; a message supplied after an entry that refers to it takes the    *)
(* node made for the reference, gets its caller key, and is in the result. *)
(***************************************************************************)
Seen(ms) == Supplied(ms) \cup Referenced(ms)

\* entry j supplies an identifier first seen as a reference of an earlier entry
SuppliedLate(ms, j) ==
    /\ ~IsRepeat(ms, j)
    /\ \E i \in 1..Len(ms) : i < j /\ ms[j][1] \in Range(RefsOf(ms[i][3]))

Thm_C9 ==
    pc \in {"fold", "topo", "done"} =>
        /\ \A S \in {Seen(msgs)} :
              /\ DOMAIN hash_to_node = S
              /\ \A a \in S : \A b \in S : hash_to_node[a] = hash_to_node[b] => a = b
              /\ {hash_to_node[a] : a \in S} = 0..(dag.n - 1)
        /\ \A j \in 1..Len(msgs) :
              SuppliedLate(msgs, j) =>
                  /\ hash_to_node[msgs[j][1]] \in DOMAIN node_to_key_id
                  /\ node_to_key_id[hash_to_node[msgs[j][1]]] = msgs[j][2]
                  /\ Returned => msgs[j][2] \in Range(sorted)

\* a returned call with a message supplied after an entry that refers to it
W_C9 ==
    /\ Returned
    /\ \E j \in 1..Len(msgs) : SuppliedLate(msgs, j)
    /\ Referenced(msgs) \ Supplied(msgs) # {}

(***************************************************************************)
(* C10: when causal_sort returns, the supplied messages that no supplied   *)
(* message refers to stand in the result in the reverse of the order in    *)
(* which the input first supplies them, and the result, when not empty,    *)
(* begins with the one supplied last.                                      *)
(***************************************************************************)
Thm_C10 ==
    Returned =>
        /\ \A a \in Unreferenced(msgs) : \A b \in Unreferenced(msgs) :
              FirstIndex(msgs, a) < FirstIndex(msgs, b) =>
                  Before(sorted, FirstKey(msgs, b), FirstKey(msgs, a))
        /\ sorted # <<>> =>
              \E u \in Unreferenced(msgs) :
                  /\ sorted[1] = FirstKey(msgs, u)
                  /\ \A v \in Unreferenced(msgs) :
                        FirstIndex(msgs, v) <= FirstIndex(msgs, u)

\* two unreferenced messages, the first of them referring to a third message
\* that is supplied between the two
W_C10 ==
    /\ Returned
    /\ Cardinality(Unreferenced(msgs)) = 2
    /\ Cardinality(Supplied(msgs)) = 3

====
